---- MODULE Spec2Model ----
(***************************************************************************)
(* Model of the devtools inspector of freya (src/freya/src/devtools.rs):   *)
(* the mutation signal loop of the DevTools component, the depth-first     *)
(* snapshot of the RealDom it builds, the node registry (`children`), the  *)
(* selection state (`selected_node_id`), the hovered-node collaborator,    *)
(* the routes of the panel and the injection of pointer events through the *)
(* `event_emitter` channel.                                                *)
(*                                                                         *)
(* Option<T> values are sequences of length at most one: None is <<>> and  *)
(* Some(x) is <<x>>.                                                       *)
(***************************************************************************)
EXTENDS Integers, Sequences, FiniteSets, TLC

\* ------------------------------------------------------------------ bounds
\* Nodes the host application may create below its root container.
MaxAppNodes == 2
\* Signals that may wait in the unbounded mutation channel at once.
MaxSignals == 2
\* Size of the trees the snapshot builder is run on exhaustively.
MaxTreeNodes == 5
\* Injected events the event_emitter channel may hold undelivered.
MaxEmitted == 1

\* --------------------------------------------------------------- constants
\* The traversal height at which the application root and the devtools
\* panel root are met.
DevtoolsHeight == 2

VARIABLES
    rdom,             \* the RealDom behind Arc<Mutex<..>>: NodeId -> node
    rdomLock,         \* holder of the RealDom mutex: "none", "host", "devtools"
    rdomPoisoned,     \* the RealDom mutex is poisoned
    queue,            \* signals waiting in the mutation channel
    senderAlive,      \* the host still owns the sending half
    pc,               \* position of the signal loop
    stack,            \* traverse_depth_first: nodes still to visit
    new_children,     \* local Vec being built by the traversal
    root_found,       \* local flag of the traversal
    devtools_found,   \* local flag of the traversal
    children,         \* use_state Vec<TreeNode>: the node registry
    selected_node_id, \* use_state Option<NodeId>
    hovered_node,     \* HoveredNode = Option<Arc<Mutex<Option<NodeId>>>>
    route,            \* current route of the Router of the panel
    positions,        \* use_state (f64, f64) of each ClickEventListenerExtra
    emitted,          \* DomEvents waiting in the event_emitter channel
    receiverAlive,    \* the host still owns the receiving half of event_emitter
    sendResult,       \* history: what the last event_emitter.send returned
    handlerResult,    \* what the last run of event_handler gave its caller
    trigger,          \* history: the signal being processed was pushed
                      \*   while the loop slept through an earlier debounce
    recvNone,         \* history: recv() has returned None
    vanished,         \* history: a rebuild dropped the selected id
    surplus,          \* history: signals pushed minus rebuilds performed
    signalled,        \* history: a signal was pushed at least once
    dirty,            \* history: the tree changed after the last signal pushed
    provided,         \* use_get_theme(cx).input: the InputTheme in context
    theme_prop,       \* the theme prop: Option<InputThemeWith>
    theme,            \* `let mut theme` of get_theme!
    applied           \* history: apply_optional has run on theme

vars == <<rdom, rdomLock, rdomPoisoned, queue, senderAlive, pc, stack,
          new_children, root_found, devtools_found, children,
          selected_node_id, hovered_node, route, positions, emitted,
          receiverAlive, sendResult, handlerResult, trigger, recvNone, vanished,
          surplus, signalled, dirty,
          provided, theme_prop, theme, applied>>

loopLocals == <<stack, new_children, root_found, devtools_found>>
uiVars == <<selected_node_id, hovered_node>>
injectVars == <<route, positions, emitted, receiverAlive, sendResult, handlerResult>>
histVars == <<surplus, signalled, dirty>>
themeVars == <<provided, theme_prop, theme, applied>>

None == <<>>
Some(x) == <<x>>

\* ------------------------------------------------------------ node inputs
\* The kinds of node the RealDom can hold (NodeType) together with whether
\* the VirtualDom has given the node an ElementId.
ElementNode ==
    [kind |-> "Element", tag |-> "rect", text |-> "",
     listeners |-> {"click", "mousedown", "mouseover"}, has_element_id |-> TRUE]
TextNode ==
    [kind |-> "Text", tag |-> "", text |-> "Hello",
     listeners |-> {}, has_element_id |-> TRUE]
PlaceholderNode ==
    [kind |-> "Placeholder", tag |-> "", text |-> "",
     listeners |-> {}, has_element_id |-> TRUE]
VirtualNode ==
    [kind |-> "Element", tag |-> "label", text |-> "",
     listeners |-> {"click"}, has_element_id |-> FALSE]

ClickNode ==
    [kind |-> "Element", tag |-> "container", text |-> "",
     listeners |-> {"click"}, has_element_id |-> TRUE]

NodeTemplates == <<ElementNode, TextNode, PlaceholderNode, VirtualNode>>

\* ElementIds are handed out by the VirtualDom, NodeIds by the RealDom: the
\* two numberings differ.
ElementIdOf(n) == 100 + n

MkNode(n, parent, kids, tpl) ==
    [parent |-> parent, children |-> kids, kind |-> tpl.kind,
     tag |-> tpl.tag, text |-> tpl.text, listeners |-> tpl.listeners,
     state |-> <<"state", n>>,
     element_id |-> IF tpl.has_element_id THEN Some(ElementIdOf(n)) ELSE None]

\* ------------------------------------------------------------ tree helpers
RootId == 1

RECURSIVE Height(_, _)
\* rdom.tree.height(id): distance from the root.
Height(t, n) == IF t[n].parent = 0 THEN 0 ELSE 1 + Height(t, t[n].parent)

RECURSIVE Ancestors(_, _)
Ancestors(t, n) ==
    IF t[n].parent = 0 THEN {} ELSE {t[n].parent} \cup Ancestors(t, t[n].parent)

RemoveFromSeq(s, x) == SelectSeq(s, LAMBDA y : y # x)

InsertSorted(s, x) ==
    SelectSeq(s, LAMBDA y : y < x) \o <<x>> \o SelectSeq(s, LAMBDA y : y > x)

\* ------------------------------------------------- the tree of with_devtools
\* The wrapper with_devtools renders above the application: the RealDom root,
\* the outer rect, the container of the application (first node of height
\* 2), the rect of the devtools panel (second node of height 2) and the root
\* rect of the DevTools component below it.
ContainerId == 3
DevtoolsRectId == 4
FirstAppId == 6

DevtoolsLayout ==
    (1 :> MkNode(1, 0, <<2>>, ElementNode)) @@
    (2 :> MkNode(2, 1, <<ContainerId, DevtoolsRectId>>, ElementNode)) @@
    (ContainerId :> MkNode(ContainerId, 2, <<>>, VirtualNode)) @@
    (DevtoolsRectId :> MkNode(DevtoolsRectId, 2, <<5>>, ElementNode)) @@
    (5 :> MkNode(5, DevtoolsRectId, <<>>, ElementNode))

AppIds == FirstAppId .. (FirstAppId + MaxAppNodes - 1)

\* The node the application creates under a given NodeId.
HostTemplate(n) == NodeTemplates[((n - FirstAppId) % Len(NodeTemplates)) + 1]

\* ------------------------------------------------------------ the registry
\* TreeNode reporting an empty listener set for the nodes that are no
\* elements.
TreeNodeAlwaysListeners(t, n, height) ==
    LET node == t[n]
        tag == CASE node.kind = "Text" -> "text"
                 [] node.kind = "Element" -> node.tag
                 [] node.kind = "Placeholder" -> "placeholder"
        text == IF node.kind = "Text" THEN Some(node.text) ELSE None
        listeners == IF node.kind = "Element" THEN Some(node.listeners) ELSE Some({})
    IN [height |-> height, id |-> n, tag |-> tag, text |-> text,
        listeners |-> listeners, element_id |-> node.element_id[1],
        state |-> node.state]

\* struct TreeNode, filled as the traversal closure fills it.
TreeNode(t, n, height) ==
    LET node == t[n]
        tag == CASE node.kind = "Text" -> "text"
                 [] node.kind = "Element" -> node.tag
                 [] node.kind = "Placeholder" -> "placeholder"
        text == IF node.kind = "Text" THEN Some(node.text) ELSE None
        listeners == IF node.kind = "Element" THEN Some(node.listeners) ELSE None
    IN [height |-> height, id |-> n, tag |-> tag, text |-> text,
        listeners |-> listeners, element_id |-> node.element_id[1],
        state |-> node.state]

RECURSIVE FindByElementId(_, _)
\* Find comparing the selected NodeId with the ElementId of the records.
FindByElementId(nodes, sel) ==
    IF nodes = <<>> THEN None
    ELSE IF sel # None /\ sel[1] = Head(nodes).element_id THEN Some(Head(nodes))
    ELSE FindByElementId(Tail(nodes), sel)

RECURSIVE Find(_, _)
\* children.iter().find(|c| selected_node_id == Some(c.id))
Find(nodes, sel) ==
    IF nodes = <<>> THEN None
    ELSE IF sel # None /\ sel[1] = Head(nodes).id THEN Some(Head(nodes))
    ELSE Find(Tail(nodes), sel)

selected_node == Find(children, selected_node_id)

RegistryIds(nodes) == {nodes[i].id : i \in 1..Len(nodes)}

\* ------------------------------------------------- routes and coordinates
\* The three Routes of the Router of the panel.
ElementsRoute == "/elements"
StyleRoute == "/elements/style"
ListenersRoute == "/elements/listeners"

\* EventListener giving a ClickEventListenerExtra to mouseover as well.
PointerListenersWithOver == {"mousedown", "click", "mouseover"}

\* The listeners EventListener gives a ClickEventListenerExtra.
PointerListeners == {"mousedown", "click"}

\* use_state(cx, || (0.0, 0.0)) of every ClickEventListenerExtra.
ZeroPositions == [l \in PointerListeners |-> <<0, 0>>]

\* NodeInspectorListeners is rendered: the route is the listeners route and
\* the selection resolves.
Mounted(r, nodes, sel) ==
    /\ r = ListenersRoute
    /\ Find(nodes, sel) # None

\* Rendering a default listener for the records that have no listeners.
RenderedListenersDefaulted(node) ==
    IF node.listeners # None THEN node.listeners[1] ELSE {"click"}

\* node.listeners.as_ref().and_then(..): the listeners NodeInspectorListeners
\* renders an EventListener for.
RenderedListeners(node) ==
    IF node.listeners # None THEN node.listeners[1] ELSE {}

\* The EventListeners that get a ClickEventListenerExtra.
ExtraListeners(node) == RenderedListeners(node) \cap PointerListeners

\* The hook state of the ClickEventListenerExtras lives as long as they stay
\* rendered; a component rendered anew starts from its initial value.
KeptPositions(r, nodes, sel) ==
    IF Mounted(route, children, selected_node_id) /\ Mounted(r, nodes, sel)
    THEN positions ELSE ZeroPositions

\* Texts are sequences of characters.
Digits == <<"0", "1", "2", "3", "4", "5", "6", "7", "8", "9">>

DigitValue(c) == (CHOOSE i \in 1..Len(Digits) : Digits[i] = c) - 1

IsDigit(c) == \E i \in 1..Len(Digits) : Digits[i] = c

RECURSIVE DecimalValue(_)
DecimalValue(text) ==
    IF text = <<>> THEN 0
    ELSE 10 * DecimalValue(SubSeq(text, 1, Len(text) - 1))
         + DigitValue(text[Len(text)])

\* v.parse::<f64>() on the texts of decimal digits: Ok(value) of a non-empty
\* run of digits, Err of anything else.
ParseF64(text) ==
    IF text # <<>> /\ \A i \in 1..Len(text) : IsDigit(text[i])
    THEN Some(DecimalValue(text)) ELSE None

\* Result::unwrap_or
UnwrapOr(res, default) == IF res # None THEN res[1] ELSE default

\* The texts the user types into a coordinate Input.
CoordInputs == {<<"5">>, <<"5", "x">>, <<>>}

\* MouseData::new(screen_coordinates, element_coordinates, trigger_button)
MouseDataNew(screen, element, button) ==
    [kind |-> "Mouse", screen_coordinates |-> screen,
     element_coordinates |-> element, trigger_button |-> button]

\* --------------------------------------------------------------- the host
HostFree == rdomLock = "none" /\ ~rdomPoisoned /\ pc # "panicked"

\* The application (lock taken and released within its update) adds node n
\* under its root container; the children of the container are a keyed list
\* in the order of their NodeIds.
HostAddNode(n) ==
    /\ HostFree
    /\ n \in AppIds \ DOMAIN rdom
    /\ rdom' = [m \in DOMAIN rdom \cup {n} |->
                  IF m = n THEN MkNode(n, ContainerId, <<>>, HostTemplate(n))
                  ELSE IF m = ContainerId
                       THEN [rdom[m] EXCEPT !.children = InsertSorted(@, n)]
                  ELSE rdom[m]]
    /\ UNCHANGED <<injectVars, rdomLock, rdomPoisoned, queue, senderAlive, pc, loopLocals,
                   children, uiVars, trigger, recvNone, vanished>>
    /\ dirty' = TRUE
    /\ UNCHANGED <<surplus, signalled, themeVars>>

\* The application removes the leaf n.
HostRemoveNode(n) ==
    /\ HostFree
    /\ n \in AppIds \cap DOMAIN rdom
    /\ rdom[n].children = <<>>
    /\ rdom' = [m \in DOMAIN rdom \ {n} |->
                  IF m = rdom[n].parent
                  THEN [rdom[m] EXCEPT !.children = RemoveFromSeq(@, n)]
                  ELSE rdom[m]]
    /\ UNCHANGED <<injectVars, rdomLock, rdomPoisoned, queue, senderAlive, pc, loopLocals,
                   children, uiVars, trigger, recvNone, vanished>>
    /\ dirty' = TRUE
    /\ UNCHANGED <<surplus, signalled, themeVars>>

\* The host takes the RealDom mutex and keeps it (layout, rendering).
HostLock ==
    /\ HostFree
    /\ rdomLock' = "host"
    /\ UNCHANGED <<injectVars, rdom, rdomPoisoned, queue, senderAlive, pc, loopLocals,
                   children, uiVars, trigger, recvNone, vanished>>
    /\ UNCHANGED <<histVars, themeVars>>

HostUnlock ==
    /\ rdomLock = "host"
    /\ rdomLock' = "none"
    /\ UNCHANGED <<injectVars, rdom, rdomPoisoned, queue, senderAlive, pc, loopLocals,
                   children, uiVars, trigger, recvNone, vanished>>
    /\ UNCHANGED <<histVars, themeVars>>

\* A host thread panics while it holds the guard: the mutex is poisoned.
HostPanic ==
    /\ rdomLock = "host"
    /\ rdomLock' = "none"
    /\ rdomPoisoned' = TRUE
    /\ UNCHANGED <<injectVars, rdom, queue, senderAlive, pc, loopLocals,
                   children, uiVars, trigger, recvNone, vanished>>
    /\ UNCHANGED <<histVars, themeVars>>

\* mutations_sender.send(()): the signal is tagged with whether it arrives
\* while the loop sleeps through the debounce delay.
HostSignal ==
    /\ senderAlive
    /\ pc # "panicked"
    /\ Len(queue) < MaxSignals
    /\ queue' = Append(queue, pc = "sleep")
    /\ UNCHANGED <<injectVars, rdom, rdomLock, rdomPoisoned, senderAlive, pc, loopLocals,
                   children, uiVars, trigger, recvNone, vanished>>
    /\ surplus' = surplus + 1
    /\ signalled' = TRUE
    /\ dirty' = FALSE
    /\ UNCHANGED themeVars

\* The sending half is dropped: the channel is closed once it is drained.
HostDropSender ==
    /\ senderAlive
    /\ senderAlive' = FALSE
    /\ UNCHANGED <<injectVars, rdom, rdomLock, rdomPoisoned, queue, pc, loopLocals,
                   children, uiVars, trigger, recvNone, vanished>>
    /\ UNCHANGED <<histVars, themeVars>>

\* -------------------------------------------------------- the signal loop
\* The loop building the registry once when the component mounts, before
\* it waits for a signal.
LoopStartRebuilds ==
    /\ pc = "start"
    /\ pc' = "lock"
    /\ UNCHANGED <<injectVars, rdom, rdomLock, rdomPoisoned, queue, senderAlive, loopLocals,
                   children, uiVars, trigger, recvNone, vanished>>
    /\ UNCHANGED <<histVars, themeVars>>

\* let mut mutations_receiver = mutations_receiver.lock().unwrap();
\* Only this task ever locks the receiver, so the lock succeeds.
LoopStart ==
    /\ pc = "start"
    /\ pc' = "recv"
    /\ UNCHANGED <<injectVars, rdom, rdomLock, rdomPoisoned, queue, senderAlive, loopLocals,
                   children, uiVars, trigger, recvNone, vanished>>
    /\ UNCHANGED <<histVars, themeVars>>

\* recv() is Some(()) and the loop goes for the lock at once.
LoopRecvSomeNoDelay ==
    /\ pc = "recv"
    /\ queue # <<>>
    /\ trigger' = Head(queue)
    /\ queue' = Tail(queue)
    /\ pc' = "lock"
    /\ UNCHANGED <<injectVars, rdom, rdomLock, rdomPoisoned, senderAlive, loopLocals,
                   children, uiVars, recvNone, vanished>>
    /\ UNCHANGED <<histVars, themeVars>>

\* mutations_receiver.recv().await is Some(()): go on to the debounce sleep.
LoopRecvSome ==
    /\ pc = "recv"
    /\ queue # <<>>
    /\ trigger' = Head(queue)
    /\ queue' = Tail(queue)
    /\ pc' = "sleep"
    /\ UNCHANGED <<injectVars, rdom, rdomLock, rdomPoisoned, senderAlive, loopLocals,
                   children, uiVars, recvNone, vanished>>
    /\ UNCHANGED <<histVars, themeVars>>

\* recv() is None (channel closed and drained): the `if` is skipped and the
\* `loop` goes round to recv() again.
LoopRecvNone ==
    /\ pc = "recv"
    /\ queue = <<>>
    /\ ~senderAlive
    /\ recvNone' = TRUE
    /\ pc' = "recv"
    /\ UNCHANGED <<injectVars, rdom, rdomLock, rdomPoisoned, queue, senderAlive, loopLocals,
                   children, uiVars, trigger, vanished>>
    /\ UNCHANGED <<histVars, themeVars>>

\* sleep(Duration::from_millis(10)).await is over.
LoopWake ==
    /\ pc = "sleep"
    /\ pc' = "lock"
    /\ UNCHANGED <<injectVars, rdom, rdomLock, rdomPoisoned, queue, senderAlive, loopLocals,
                   children, uiVars, trigger, recvNone, vanished>>
    /\ UNCHANGED <<histVars, themeVars>>

\* rdom.lock().unwrap() on a free mutex; the locals of the block are set up.
\* While the host holds the mutex the call blocks.
LoopLockRdom ==
    /\ pc = "lock"
    /\ rdomLock = "none"
    /\ ~rdomPoisoned
    /\ rdomLock' = "devtools"
    /\ new_children' = <<>>
    /\ root_found' = FALSE
    /\ devtools_found' = FALSE
    /\ stack' = <<RootId>>
    /\ pc' = "traverse"
    /\ UNCHANGED <<injectVars, rdom, rdomPoisoned, queue, senderAlive,
                   children, uiVars, trigger, recvNone, vanished>>
    /\ UNCHANGED <<histVars, themeVars>>

\* rdom.lock() returns Err(PoisonError) and unwrap() panics: the guard inside
\* the error is dropped, the task is gone.
LoopLockPoisoned ==
    /\ pc = "lock"
    /\ rdomLock = "none"
    /\ rdomPoisoned
    /\ pc' = "panicked"
    /\ UNCHANGED <<injectVars, rdom, rdomLock, rdomPoisoned, queue, senderAlive, loopLocals,
                   children, uiVars, trigger, recvNone, vanished>>
    /\ UNCHANGED <<histVars, themeVars>>

\* LoopVisit leaving out the second node of height 2 itself, but not what
\* the traversal meets after it.
LoopVisitExcludesRootOnly ==
    /\ pc = "traverse"
    /\ stack # <<>>
    /\ LET n == Head(stack)
           height == Height(rdom, n)
           root_found1 == IF height = DevtoolsHeight THEN TRUE ELSE root_found
           devtools_found1 == height = DevtoolsHeight /\ root_found
       IN /\ root_found' = root_found1
          /\ devtools_found' = devtools_found1
          /\ new_children' =
                 IF ~devtools_found1 /\ rdom[n].element_id # None
                 THEN Append(new_children, TreeNode(rdom, n, height))
                 ELSE new_children
          /\ stack' = rdom[n].children \o Tail(stack)
    /\ UNCHANGED <<injectVars, rdom, rdomLock, rdomPoisoned, queue, senderAlive, pc,
                   children, uiVars, trigger, recvNone, vanished>>
    /\ UNCHANGED <<histVars, themeVars>>

\* LoopVisit putting the children of the visited node on the stack twice.
LoopVisitRevisits ==
    /\ pc = "traverse"
    /\ stack # <<>>
    /\ LET n == Head(stack)
           height == Height(rdom, n)
           root_found1 == IF height = DevtoolsHeight THEN TRUE ELSE root_found
           devtools_found1 ==
               IF height = DevtoolsHeight /\ root_found THEN TRUE
               ELSE devtools_found
       IN /\ root_found' = root_found1
          /\ devtools_found' = devtools_found1
          /\ new_children' =
                 IF ~devtools_found1 /\ rdom[n].element_id # None
                 THEN Append(new_children, TreeNode(rdom, n, height))
                 ELSE new_children
          /\ stack' = rdom[n].children \o rdom[n].children \o Tail(stack)
    /\ UNCHANGED <<injectVars, rdom, rdomLock, rdomPoisoned, queue, senderAlive, pc,
                   children, uiVars, trigger, recvNone, vanished>>
    /\ UNCHANGED <<histVars, themeVars>>

\* LoopVisit pushing each record straight into the registry state.
LoopVisitInPlace ==
    /\ pc = "traverse"
    /\ stack # <<>>
    /\ LET n == Head(stack)
           height == Height(rdom, n)
           root_found1 == IF height = DevtoolsHeight THEN TRUE ELSE root_found
           devtools_found1 ==
               IF height = DevtoolsHeight /\ root_found THEN TRUE
               ELSE devtools_found
           pushed ==
               IF ~devtools_found1 /\ rdom[n].element_id # None
               THEN Append(new_children, TreeNode(rdom, n, height))
               ELSE new_children
       IN /\ root_found' = root_found1
          /\ devtools_found' = devtools_found1
          /\ new_children' = pushed
          /\ children' = pushed
          /\ stack' = rdom[n].children \o Tail(stack)
    /\ UNCHANGED <<injectVars, rdom, rdomLock, rdomPoisoned, queue, senderAlive, pc,
                   uiVars, trigger, recvNone, vanished>>
    /\ UNCHANGED <<histVars, themeVars>>

\* LoopVisit taking the first node of height 2 for the devtools root.
LoopVisitExcludesFirst ==
    /\ pc = "traverse"
    /\ stack # <<>>
    /\ LET n == Head(stack)
           height == Height(rdom, n)
           root_found1 == IF height = DevtoolsHeight THEN TRUE ELSE root_found
           devtools_found1 ==
               IF height = DevtoolsHeight THEN TRUE ELSE devtools_found
       IN /\ root_found' = root_found1
          /\ devtools_found' = devtools_found1
          /\ new_children' =
                 IF ~devtools_found1 /\ rdom[n].element_id # None
                 THEN Append(new_children, TreeNode(rdom, n, height))
                 ELSE new_children
          /\ stack' = rdom[n].children \o Tail(stack)
    /\ UNCHANGED <<injectVars, rdom, rdomLock, rdomPoisoned, queue, senderAlive, pc,
                   children, uiVars, trigger, recvNone, vanished>>
    /\ UNCHANGED <<histVars, themeVars>>

\* LoopVisit never recording the root of the tree.
LoopVisitSkipsRoot ==
    /\ pc = "traverse"
    /\ stack # <<>>
    /\ LET n == Head(stack)
           height == Height(rdom, n)
           root_found1 == IF height = DevtoolsHeight THEN TRUE ELSE root_found
           devtools_found1 ==
               IF height = DevtoolsHeight /\ root_found THEN TRUE
               ELSE devtools_found
       IN /\ root_found' = root_found1
          /\ devtools_found' = devtools_found1
          /\ new_children' =
                 IF ~devtools_found1 /\ rdom[n].element_id # None /\ height # 0
                 THEN Append(new_children, TreeNode(rdom, n, height))
                 ELSE new_children
          /\ stack' = rdom[n].children \o Tail(stack)
    /\ UNCHANGED <<injectVars, rdom, rdomLock, rdomPoisoned, queue, senderAlive, pc,
                   children, uiVars, trigger, recvNone, vanished>>
    /\ UNCHANGED <<histVars, themeVars>>

\* The closure lifting the exclusion again at a node above height 2.
LoopVisitResetsFlag ==
    /\ pc = "traverse"
    /\ stack # <<>>
    /\ LET n == Head(stack)
           height == Height(rdom, n)
           root_found1 == IF height = DevtoolsHeight THEN TRUE ELSE root_found
           devtools_found1 ==
               IF height = DevtoolsHeight /\ root_found THEN TRUE
               ELSE IF height < DevtoolsHeight THEN FALSE
               ELSE devtools_found
       IN /\ root_found' = root_found1
          /\ devtools_found' = devtools_found1
          /\ new_children' =
                 IF ~devtools_found1 /\ rdom[n].element_id # None
                 THEN Append(new_children, TreeNode(rdom, n, height))
                 ELSE new_children
          /\ stack' = rdom[n].children \o Tail(stack)
    /\ UNCHANGED <<injectVars, rdom, rdomLock, rdomPoisoned, queue, senderAlive, pc,
                   children, uiVars, trigger, recvNone, vanished>>
    /\ UNCHANGED <<histVars, themeVars>>

\* One call of the closure given to traverse_depth_first, on the node on top
\* of the stack, followed by the push of that node's children.
LoopVisit ==
    /\ pc = "traverse"
    /\ stack # <<>>
    /\ LET n == Head(stack)
           height == Height(rdom, n)
           root_found1 == IF height = DevtoolsHeight THEN TRUE ELSE root_found
           devtools_found1 ==
               IF height = DevtoolsHeight /\ root_found THEN TRUE
               ELSE devtools_found
       IN /\ root_found' = root_found1
          /\ devtools_found' = devtools_found1
          /\ new_children' =
                 IF ~devtools_found1 /\ rdom[n].element_id # None
                 THEN Append(new_children, TreeNode(rdom, n, height))
                 ELSE new_children
          /\ stack' = rdom[n].children \o Tail(stack)
    /\ UNCHANGED <<injectVars, rdom, rdomLock, rdomPoisoned, queue, senderAlive, pc,
                   children, uiVars, trigger, recvNone, vanished>>
    /\ UNCHANGED <<histVars, themeVars>>

\* LoopSet reconciling the selection: a selected id the new registry lacks
\* is cleared.
LoopSetReconciles ==
    /\ pc = "traverse"
    /\ stack = <<>>
    /\ children' = new_children
    /\ rdomLock' = "none"
    /\ pc' = "recv"
    /\ selected_node_id' =
           IF selected_node_id # None
              /\ selected_node_id[1] \notin RegistryIds(new_children)
           THEN None ELSE selected_node_id
    /\ vanished' = IF selected_node_id # None
                      /\ selected_node_id[1] \notin RegistryIds(new_children)
                   THEN TRUE ELSE vanished
    /\ UNCHANGED <<rdom, rdomPoisoned, queue, senderAlive, loopLocals,
                   hovered_node, trigger, recvNone>>
    /\ UNCHANGED <<route, emitted, receiverAlive, sendResult, handlerResult>>
    /\ positions' = KeptPositions(route', children', selected_node_id')
    /\ surplus' = surplus - 1
    /\ UNCHANGED <<signalled, dirty, themeVars>>

\* LoopSet starting every new registry with nothing selected.
LoopSetClearsSelection ==
    /\ pc = "traverse"
    /\ stack = <<>>
    /\ children' = new_children
    /\ rdomLock' = "none"
    /\ pc' = "recv"
    /\ selected_node_id' = None
    /\ vanished' = IF selected_node_id # None
                      /\ selected_node_id[1] \notin RegistryIds(new_children)
                   THEN TRUE ELSE vanished
    /\ UNCHANGED <<rdom, rdomPoisoned, queue, senderAlive, loopLocals,
                   hovered_node, trigger, recvNone>>
    /\ UNCHANGED <<route, emitted, receiverAlive, sendResult, handlerResult>>
    /\ positions' = KeptPositions(route', children', selected_node_id')
    /\ surplus' = surplus - 1
    /\ UNCHANGED <<signalled, dirty, themeVars>>

\* LoopSet with the guard kept alive across the loop iteration.
LoopSetKeepsGuard ==
    /\ pc = "traverse"
    /\ stack = <<>>
    /\ children' = new_children
    /\ pc' = "recv"
    /\ vanished' = IF selected_node_id # None
                      /\ selected_node_id[1] \notin RegistryIds(new_children)
                   THEN TRUE ELSE vanished
    /\ UNCHANGED <<rdom, rdomLock, rdomPoisoned, queue, senderAlive, loopLocals,
                   uiVars, trigger, recvNone>>
    /\ UNCHANGED <<route, emitted, receiverAlive, sendResult, handlerResult>>
    /\ positions' = KeptPositions(route', children', selected_node_id')
    /\ surplus' = surplus - 1
    /\ UNCHANGED <<signalled, dirty, themeVars>>

\* LoopSet storing the snapshot only while the registry is still empty.
LoopSetOnce ==
    /\ pc = "traverse"
    /\ stack = <<>>
    /\ children' = IF children = <<>> THEN new_children ELSE children
    /\ rdomLock' = "none"
    /\ pc' = "recv"
    /\ vanished' = IF selected_node_id # None
                      /\ selected_node_id[1] \notin RegistryIds(children')
                   THEN TRUE ELSE vanished
    /\ UNCHANGED <<rdom, rdomPoisoned, queue, senderAlive, loopLocals,
                   uiVars, trigger, recvNone>>
    /\ UNCHANGED <<route, emitted, receiverAlive, sendResult, handlerResult>>
    /\ positions' = KeptPositions(route', children', selected_node_id')
    /\ surplus' = surplus - 1
    /\ UNCHANGED <<signalled, dirty, themeVars>>

\* children.set(new_children); the guard is dropped at the end of the block
\* and the loop goes back to recv().
LoopSet ==
    /\ pc = "traverse"
    /\ stack = <<>>
    /\ children' = new_children
    /\ rdomLock' = "none"
    /\ pc' = "recv"
    /\ vanished' = IF selected_node_id # None
                      /\ selected_node_id[1] \notin RegistryIds(new_children)
                   THEN TRUE ELSE vanished
    /\ UNCHANGED <<rdom, rdomPoisoned, queue, senderAlive, loopLocals,
                   uiVars, trigger, recvNone>>
    /\ UNCHANGED <<route, emitted, receiverAlive, sendResult, handlerResult>>
    /\ positions' = KeptPositions(route', children', selected_node_id')
    /\ surplus' = surplus - 1
    /\ UNCHANGED <<signalled, dirty, themeVars>>

\* --------------------------------------------------------------- selection
\* onselected leaving the hovered node to the renderer.
SelectWithoutHover(i) ==
    /\ pc # "panicked"
    /\ i \in 1..Len(children)
    /\ selected_node_id' = Some(children[i].id)
    /\ route' = StyleRoute
    /\ positions' = KeptPositions(route', children, selected_node_id')
    /\ vanished' = FALSE
    /\ UNCHANGED <<rdom, rdomLock, rdomPoisoned, queue, senderAlive, pc,
                   loopLocals, children, hovered_node, trigger, recvNone>>
    /\ UNCHANGED <<emitted, receiverAlive, sendResult, handlerResult>>
    /\ UNCHANGED <<histVars, themeVars>>

\* onselected moving the chosen record to the front of the registry.
SelectPromotes(i) ==
    /\ pc # "panicked"
    /\ i \in 1..Len(children)
    /\ hovered_node' = IF hovered_node # None THEN Some(Some(children[i].id))
                       ELSE hovered_node
    /\ selected_node_id' = Some(children[i].id)
    /\ children' = [children EXCEPT ![1] = children[i], ![i] = children[1]]
    /\ route' = StyleRoute
    /\ positions' = KeptPositions(route', children', selected_node_id')
    /\ vanished' = FALSE
    /\ UNCHANGED <<rdom, rdomLock, rdomPoisoned, queue, senderAlive, pc,
                   loopLocals, trigger, recvNone>>
    /\ UNCHANGED <<emitted, receiverAlive, sendResult, handlerResult>>
    /\ UNCHANGED <<histVars, themeVars>>

\* onselected of a NodeElement rendered for the i-th record of the registry:
\* the closure of the Route, then router.push_route("/elements/style").
Select(i) ==
    /\ pc # "panicked"
    /\ i \in 1..Len(children)
    /\ hovered_node' = IF hovered_node # None THEN Some(Some(children[i].id))
                       ELSE hovered_node
    /\ selected_node_id' = Some(children[i].id)
    /\ route' = StyleRoute
    /\ positions' = KeptPositions(route', children, selected_node_id')
    /\ vanished' = FALSE
    /\ UNCHANGED <<rdom, rdomLock, rdomPoisoned, queue, senderAlive, pc,
                   loopLocals, children, trigger, recvNone>>
    /\ UNCHANGED <<emitted, receiverAlive, sendResult, handlerResult>>
    /\ UNCHANGED <<histVars, themeVars>>

\* ------------------------------------------------------------- navigation
Routes == {ElementsRoute, StyleRoute, ListenersRoute}

\* A click on a TabButton: the Elements tab of the TabsBar, or a tab of the
\* NodeInspectorBar an inspector shows.
TabButton(to) ==
    /\ pc # "panicked"
    /\ \/ to = ElementsRoute
       \/ /\ to \in {StyleRoute, ListenersRoute}
          /\ route \in {StyleRoute, ListenersRoute}
          /\ selected_node # None
    /\ route' = to
    /\ positions' = KeptPositions(to, children, selected_node_id)
    /\ UNCHANGED <<rdom, rdomLock, rdomPoisoned, queue, senderAlive, pc,
                   loopLocals, children, uiVars, trigger, recvNone, vanished>>
    /\ UNCHANGED <<emitted, receiverAlive, sendResult, handlerResult>>
    /\ UNCHANGED <<histVars, themeVars>>

\* -------------------------------------------------------------- injection
\* struct DomEvent as event_handler fills it for a record of the registry.
DomEvent(listener, node, local) ==
    [name |-> listener, element_id |-> node.element_id,
     data |-> MouseDataNew(<<0, 0>>, local, Some("Left"))]

\* onchange of the first Input of the ClickEventListenerExtra of listener l
\* falling back to the initial value.
OnChangeXResets(l, v) ==
    /\ pc # "panicked"
    /\ Mounted(route, children, selected_node_id)
    /\ l \in ExtraListeners(selected_node[1])
    /\ positions' = [positions EXCEPT
                       ![l] = <<UnwrapOr(ParseF64(v), 0), positions[l][2]>>]
    /\ UNCHANGED <<rdom, rdomLock, rdomPoisoned, queue, senderAlive, pc,
                   loopLocals, children, uiVars, trigger, recvNone, vanished>>
    /\ UNCHANGED <<route, emitted, receiverAlive, sendResult, handlerResult>>
    /\ UNCHANGED <<histVars, themeVars>>

\* onchange of the first Input of the ClickEventListenerExtra of listener l.
OnChangeX(l, v) ==
    /\ pc # "panicked"
    /\ Mounted(route, children, selected_node_id)
    /\ l \in ExtraListeners(selected_node[1])
    /\ positions' = [positions EXCEPT
                       ![l] = <<UnwrapOr(ParseF64(v), positions[l][1]),
                                positions[l][2]>>]
    /\ UNCHANGED <<rdom, rdomLock, rdomPoisoned, queue, senderAlive, pc,
                   loopLocals, children, uiVars, trigger, recvNone, vanished>>
    /\ UNCHANGED <<route, emitted, receiverAlive, sendResult, handlerResult>>
    /\ UNCHANGED <<histVars, themeVars>>

\* onchange of the second Input.
OnChangeY(l, v) ==
    /\ pc # "panicked"
    /\ Mounted(route, children, selected_node_id)
    /\ l \in ExtraListeners(selected_node[1])
    /\ positions' = [positions EXCEPT
                       ![l] = <<positions[l][1],
                                UnwrapOr(ParseF64(v), positions[l][2])>>]
    /\ UNCHANGED <<rdom, rdomLock, rdomPoisoned, queue, senderAlive, pc,
                   loopLocals, children, uiVars, trigger, recvNone, vanished>>
    /\ UNCHANGED <<route, emitted, receiverAlive, sendResult, handlerResult>>
    /\ UNCHANGED <<histVars, themeVars>>

\* event_handler passing the entered coordinates as the screen point.
event_handler_screen(l) ==
    /\ pc # "panicked"
    /\ Mounted(route, children, selected_node_id)
    /\ l \in ExtraListeners(selected_node[1])
    /\ receiverAlive => Len(emitted) < MaxEmitted
    /\ LET event == [DomEvent(l, selected_node[1], <<0, 0>>) EXCEPT
                       !.data.screen_coordinates = positions[l]]
       IN emitted' = IF receiverAlive THEN Append(emitted, event) ELSE emitted
    /\ sendResult' = IF receiverAlive THEN "Ok" ELSE "Err"
    /\ handlerResult' = "unit"
    /\ UNCHANGED <<rdom, rdomLock, rdomPoisoned, queue, senderAlive, pc,
                   loopLocals, children, uiVars, trigger, recvNone, vanished>>
    /\ UNCHANGED <<route, positions, receiverAlive>>
    /\ UNCHANGED <<histVars, themeVars>>

\* event_handler addressing the event by the NodeId of the record.
event_handler_node_id(l) ==
    /\ pc # "panicked"
    /\ Mounted(route, children, selected_node_id)
    /\ l \in ExtraListeners(selected_node[1])
    /\ receiverAlive => Len(emitted) < MaxEmitted
    /\ LET event == [DomEvent(l, selected_node[1], positions[l]) EXCEPT
                       !.element_id = selected_node[1].id]
       IN emitted' = IF receiverAlive THEN Append(emitted, event) ELSE emitted
    /\ sendResult' = IF receiverAlive THEN "Ok" ELSE "Err"
    /\ handlerResult' = "unit"
    /\ UNCHANGED <<rdom, rdomLock, rdomPoisoned, queue, senderAlive, pc,
                   loopLocals, children, uiVars, trigger, recvNone, vanished>>
    /\ UNCHANGED <<route, positions, receiverAlive>>
    /\ UNCHANGED <<histVars, themeVars>>

\* onclick of the Trigger button of the ClickEventListenerExtra of listener
\* l: the event is built from the record and the entered coordinates and
\* sent; send fails when the receiver is gone, and .ok() drops its Result.
event_handler(l) ==
    /\ pc # "panicked"
    /\ Mounted(route, children, selected_node_id)
    /\ l \in ExtraListeners(selected_node[1])
    /\ receiverAlive => Len(emitted) < MaxEmitted
    /\ LET event == DomEvent(l, selected_node[1], positions[l])
       IN emitted' = IF receiverAlive THEN Append(emitted, event) ELSE emitted
    /\ sendResult' = IF receiverAlive THEN "Ok" ELSE "Err"
    /\ handlerResult' = "unit"
    /\ UNCHANGED <<rdom, rdomLock, rdomPoisoned, queue, senderAlive, pc,
                   loopLocals, children, uiVars, trigger, recvNone, vanished>>
    /\ UNCHANGED <<route, positions, receiverAlive>>
    /\ UNCHANGED <<histVars, themeVars>>

\* The host takes the next DomEvent from the channel.
HostDispatch ==
    /\ receiverAlive
    /\ emitted # <<>>
    /\ emitted' = Tail(emitted)
    /\ UNCHANGED <<rdom, rdomLock, rdomPoisoned, queue, senderAlive, pc,
                   loopLocals, children, uiVars, trigger, recvNone, vanished>>
    /\ UNCHANGED <<route, positions, receiverAlive, sendResult, handlerResult>>
    /\ UNCHANGED <<histVars, themeVars>>

\* The host drops the receiving half of the channel, and with it the events
\* still waiting.
HostDropReceiver ==
    /\ receiverAlive
    /\ receiverAlive' = FALSE
    /\ emitted' = <<>>
    /\ UNCHANGED <<rdom, rdomLock, rdomPoisoned, queue, senderAlive, pc,
                   loopLocals, children, uiVars, trigger, recvNone, vanished>>
    /\ UNCHANGED <<route, positions, sendResult, handlerResult>>
    /\ UNCHANGED <<histVars, themeVars>>

\* ------------------------------------------------------------------ themes
\* define_theme! for Input: three Cow fields and the sub-theme font_theme,
\* itself a theme with the one Cow field color.
CowFields == {"background", "hover_background", "border_fill"}

\* LIGHT_THEME.input and DARK_THEME.input.
LightInputTheme ==
    [background |-> "rgb(245, 245, 245)", hover_background |-> "rgb(235, 235, 235)",
     border_fill |-> "rgb(210, 210, 210)", font_theme |-> [color |-> "rgb(10, 10, 10)"]]
DarkInputTheme ==
    [background |-> "rgb(35, 35, 35)", hover_background |-> "rgb(45, 45, 45)",
     border_fill |-> "rgb(80, 80, 80)", font_theme |-> [color |-> "white"]]

\* The values the overrides of a component give to a field.
OverrideValues == {"blue", "white"}

\* FontThemeWith::default() and InputThemeWith::default(): every field None.
FontThemeWithDefault == [color |-> None]
InputThemeWithDefault ==
    [background |-> None, hover_background |-> None, border_fill |-> None,
     font_theme |-> None]

\* theme_with!(Name { field: val, .. }): Some(val) for the fields named, the
\* default for the others.
theme_with(default, fields) ==
    [f \in DOMAIN default |->
        IF f \in DOMAIN fields THEN Some(fields[f]) ELSE default[f]]

\* The FontThemeWith and InputThemeWith values theme_with! builds.
FontThemeWiths ==
    {theme_with(FontThemeWithDefault, fields) :
        fields \in UNION {[D -> OverrideValues] : D \in SUBSET {"color"}}}
InputThemeWiths ==
    UNION {{theme_with(InputThemeWithDefault, cows @@ sub) :
                cows \in [D -> OverrideValues],
                sub \in [E -> FontThemeWiths]} :
           D \in SUBSET CowFields, E \in SUBSET {"font_theme"}}

\* apply_optional leaving the sub-themes as they are.
apply_optional_flat(self, optional) ==
    [f \in DOMAIN self |->
        IF f \in CowFields /\ optional[f] # None THEN optional[f][1] ELSE self[f]]

\* FontTheme::apply_optional.
font_apply_optional(self, optional) ==
    [color |-> IF optional.color # None THEN optional.color[1] ELSE self.color]

\* InputTheme::apply_optional: the sub-theme block, then the Cow block.
apply_optional(self, optional) ==
    LET sub == IF optional.font_theme # None
               THEN [self EXCEPT
                       !.font_theme = font_apply_optional(@, optional.font_theme[1])]
               ELSE self
    IN [f \in DOMAIN sub |->
           IF f \in CowFields /\ optional[f] # None THEN optional[f][1] ELSE sub[f]]

\* get_theme!(cx, &cx.props.theme, input).
get_theme(context, prop) ==
    IF prop # None THEN apply_optional(context, prop[1]) ELSE context

\* A component is rendered: get_theme! gives it its theme.
GetTheme ==
    /\ theme' = get_theme(provided, theme_prop)
    /\ applied' = (theme_prop # None)
    /\ UNCHANGED <<provided, theme_prop, histVars, injectVars, uiVars, loopLocals,
                   rdom, rdomLock, rdomPoisoned, queue, senderAlive, pc, children,
                   trigger, recvNone, vanished>>

\* theme.apply_optional(theme_override) on the theme as it is.
ApplyOptional ==
    /\ theme_prop # None
    /\ theme' = apply_optional(theme, theme_prop[1])
    /\ applied' = TRUE
    /\ UNCHANGED <<provided, theme_prop, histVars, injectVars, uiVars, loopLocals,
                   rdom, rdomLock, rdomPoisoned, queue, senderAlive, pc, children,
                   trigger, recvNone, vanished>>

\* No component with a theme prop is under observation.
ThemeIdle ==
    /\ provided = LightInputTheme
    /\ theme_prop = None
    /\ theme = provided
    /\ applied = FALSE

\* ------------------------------------------------------ trees as inputs
RECURSIVE SortedSeq(_)
SortedSeq(S) ==
    IF S = {} THEN <<>>
    ELSE LET m == CHOOSE x \in S : \A y \in S : x <= y
         IN <<m>> \o SortedSeq(S \ {m})

RECURSIVE ChainOf(_, _)
\* n and its ancestors under the parent vector par.
ChainOf(par, n) == IF n = 0 THEN {} ELSE {n} \cup ChainOf(par, par[n])

\* Parent vectors of the ordered trees of k nodes, the nodes numbered in
\* document order: node 1 is the root and node i hangs below node i-1 or
\* below one of its ancestors.
ParentVectors(k) ==
    {par \in [1..k -> 0..(k - 1)] :
        /\ par[1] = 0
        /\ \A i \in 2..k : par[i] \in ChainOf(par, i - 1)}

TreeOf(k, par, tpl) ==
    [n \in 1..k |->
        MkNode(n, par[n], SortedSeq({m \in 1..k : par[m] = n}), NodeTemplates[tpl[n]])]

\* Assignments of a kind of node to each node: only elements have children.
TemplateVectors(k, par) ==
    {tpl \in [1..k -> 1..Len(NodeTemplates)] :
        \A n \in 1..k :
            (\E m \in 1..k : par[m] = n) => NodeTemplates[tpl[n]].kind = "Element"}

\* A root with a single element child that has an ElementId and the one
\* listener "click"; the root is an element with or without an ElementId.
ScenarioATree(rootTpl) ==
    (1 :> MkNode(1, 0, <<2>>, rootTpl)) @@ (2 :> MkNode(2, 1, <<>>, ClickNode))

\* ---------------------------------------------------------- specifications
Init ==
    /\ rdom = DevtoolsLayout
    /\ rdomLock = "none"
    /\ rdomPoisoned = FALSE
    /\ queue = <<>>
    /\ senderAlive = TRUE
    /\ pc = "start"
    /\ stack = <<>>
    /\ new_children = <<>>
    /\ root_found = FALSE
    /\ devtools_found = FALSE
    /\ children = <<>>
    /\ selected_node_id = None
    /\ hovered_node \in {None, Some(None)}
    /\ route = ElementsRoute
    /\ positions = ZeroPositions
    /\ emitted = <<>>
    /\ receiverAlive = TRUE
    /\ sendResult = "none"
    /\ handlerResult = "none"
    /\ trigger = FALSE
    /\ recvNone = FALSE
    /\ vanished = FALSE
    /\ surplus = 0
    /\ signalled = FALSE
    /\ dirty = TRUE
    /\ ThemeIdle

Next ==
    \/ \E n \in AppIds : HostAddNode(n)
    \/ \E n \in AppIds : HostRemoveNode(n)
    \/ HostLock
    \/ HostUnlock
    \/ HostPanic
    \/ HostSignal
    \/ HostDropSender
    \/ LoopStart
    \/ LoopRecvSome
    \/ LoopRecvNone
    \/ LoopWake
    \/ LoopLockRdom
    \/ LoopLockPoisoned
    \/ LoopVisit
    \/ LoopSet

\* The signal loop next to the host application.
Spec == Init /\ [][Next]_vars

NextUI ==
    \/ \E n \in AppIds : HostAddNode(n)
    \/ \E n \in AppIds : HostRemoveNode(n)
    \/ HostSignal
    \/ LoopStart
    \/ LoopRecvSome
    \/ LoopWake
    \/ LoopLockRdom
    \/ LoopVisit
    \/ LoopSet
    \/ \E i \in 1..(FirstAppId + MaxAppNodes) : Select(i)

\* The user of the panel next to the signal loop and a mutating application.
SpecUI == Init /\ [][NextUI]_vars

\* One rebuild of the registry on any bounded tree: the loop has consumed a
\* signal and slept, and is about to lock the RealDom.
InitSnapshot ==
    /\ \/ \E k \in 1..MaxTreeNodes :
            \E par \in ParentVectors(k) :
              \E tpl \in TemplateVectors(k, par) : rdom = TreeOf(k, par, tpl)
       \/ \E rootTpl \in {ElementNode, VirtualNode} : rdom = ScenarioATree(rootTpl)
    /\ rdomLock = "none"
    /\ rdomPoisoned = FALSE
    /\ queue = <<>>
    /\ senderAlive = TRUE
    /\ pc = "lock"
    /\ stack = <<>>
    /\ new_children = <<>>
    /\ root_found = FALSE
    /\ devtools_found = FALSE
    /\ children = <<>>
    /\ selected_node_id = None
    /\ hovered_node = None
    /\ route = ElementsRoute
    /\ positions = ZeroPositions
    /\ emitted = <<>>
    /\ receiverAlive = TRUE
    /\ sendResult = "none"
    /\ handlerResult = "none"
    /\ trigger = FALSE
    /\ recvNone = FALSE
    /\ vanished = FALSE
    /\ surplus = 1
    /\ signalled = TRUE
    /\ dirty = FALSE
    /\ ThemeIdle

NextSnapshot ==
    \/ LoopLockRdom
    \/ LoopVisit
    \/ LoopSet

SpecSnapshot == InitSnapshot /\ [][NextSnapshot]_vars

\* ------------------------------------------------- vocabulary of the claims
RECURSIVE Preorder(_, _)
RECURSIVE PreorderAll(_, _)
\* The nodes of the subtree of n in document order.
Preorder(t, n) == <<n>> \o PreorderAll(t, t[n].children)
PreorderAll(t, kids) ==
    IF kids = <<>> THEN <<>>
    ELSE Preorder(t, Head(kids)) \o PreorderAll(t, Tail(kids))

Index(s, x) == CHOOSE i \in 1..Len(s) : s[i] = x

\* The nodes of height 2 in document order; the second one, when there is
\* one, is the root of the devtools panel.
AtDevtoolsHeight(t) ==
    SelectSeq(Preorder(t, RootId), LAMBDA n : Height(t, n) = DevtoolsHeight)
HasDevtoolsRoot(t) == Len(AtDevtoolsHeight(t)) >= 2
DevtoolsRoot(t) == AtDevtoolsHeight(t)[2]

InDevtoolsSubtree(t, n) ==
    HasDevtoolsRoot(t) /\ (n = DevtoolsRoot(t) \/ DevtoolsRoot(t) \in Ancestors(t, n))

\* The nodes met before the devtools root in document order.
BeforeDevtoolsRoot(t) ==
    LET order == Preorder(t, RootId)
    IN IF HasDevtoolsRoot(t)
       THEN SubSeq(order, 1, Index(order, DevtoolsRoot(t)) - 1)
       ELSE order

Ids(nodes) == [i \in 1..Len(nodes) |-> nodes[i].id]

\* The complete registry of a tree: the nodes with an ElementId met before
\* the devtools root, in document order.
CompleteIds(t) == SelectSeq(BeforeDevtoolsRoot(t), LAMBDA n : t[n].element_id # None)

Rebuilt == pc = "traverse" /\ pc' = "recv"

\* ------------------------------------------- the panel on a built registry
\* The tree of with_devtools with the application nodes S below the container.
HostTree(S) ==
    [m \in DOMAIN DevtoolsLayout \cup S |->
        IF m \in S THEN MkNode(m, ContainerId, <<>>, HostTemplate(m))
        ELSE IF m = ContainerId
        THEN [DevtoolsLayout[m] EXCEPT !.children = SortedSeq(S)]
        ELSE DevtoolsLayout[m]]

\* The registry a rebuild gives for the tree t.
RegistryOf(t) ==
    LET ids == CompleteIds(t)
    IN [i \in 1..Len(ids) |-> TreeNode(t, ids[i], Height(t, ids[i]))]

\* The NodeIds a registry of the session can have offered for selection.
SelectableIds == RegistryIds(RegistryOf(HostTree(AppIds)))

\* The panel between two signals: the registry is the one of the current
\* tree, the loop waits in recv(), and the user has selected nothing or, some
\* time before, one of the nodes the session has shown, which may since be
\* gone; the inspector tabs are only reached through a selection.
InitInject ==
    /\ \E S \in SUBSET AppIds : rdom = HostTree(S)
    /\ children = RegistryOf(rdom)
    /\ selected_node_id \in {None} \cup {Some(n) : n \in SelectableIds}
    /\ hovered_node = Some(selected_node_id)
    /\ route \in IF selected_node_id = None THEN {ElementsRoute} ELSE Routes
    /\ vanished = (selected_node_id # None /\ selected_node = None)
    /\ rdomLock = "none"
    /\ rdomPoisoned = FALSE
    /\ queue = <<>>
    /\ senderAlive = TRUE
    /\ pc = "recv"
    /\ stack = <<>>
    /\ new_children = children
    /\ root_found = TRUE
    /\ devtools_found = TRUE
    /\ positions = ZeroPositions
    /\ emitted = <<>>
    /\ receiverAlive = TRUE
    /\ sendResult = "none"
    /\ handlerResult = "none"
    /\ trigger = FALSE
    /\ recvNone = FALSE
    /\ surplus = 0
    /\ signalled = TRUE
    /\ dirty = FALSE
    /\ ThemeIdle

NextInject ==
    \/ \E i \in 1..(FirstAppId + MaxAppNodes) : Select(i)
    \/ \E to \in Routes : TabButton(to)
    \/ \E l \in PointerListeners : \E v \in CoordInputs : OnChangeX(l, v)
    \/ \E l \in PointerListeners : \E v \in CoordInputs : OnChangeY(l, v)
    \/ \E l \in PointerListeners : event_handler(l)
    \/ HostDispatch
    \/ HostDropReceiver

\* The user of the panel on a registry at rest, next to the host end of the
\* event channel.
SpecInject == InitInject /\ [][NextInject]_vars

\* A component with a theme prop next to a panel that is not yet running.
InitTheme ==
    /\ provided \in {LightInputTheme, DarkInputTheme}
    /\ theme_prop \in {None} \cup {Some(o) : o \in InputThemeWiths}
    /\ theme = provided
    /\ applied = FALSE
    /\ rdom = DevtoolsLayout
    /\ rdomLock = "none"
    /\ rdomPoisoned = FALSE
    /\ queue = <<>>
    /\ senderAlive = TRUE
    /\ pc = "start"
    /\ stack = <<>>
    /\ new_children = <<>>
    /\ root_found = FALSE
    /\ devtools_found = FALSE
    /\ children = <<>>
    /\ selected_node_id = None
    /\ hovered_node = None
    /\ route = ElementsRoute
    /\ positions = ZeroPositions
    /\ emitted = <<>>
    /\ receiverAlive = TRUE
    /\ sendResult = "none"
    /\ handlerResult = "none"
    /\ trigger = FALSE
    /\ recvNone = FALSE
    /\ vanished = FALSE
    /\ surplus = 0
    /\ signalled = FALSE
    /\ dirty = TRUE

NextTheme ==
    \/ GetTheme
    \/ ApplyOptional

\* The theme of a component under every override theme_with! can build.
SpecTheme == InitTheme /\ [][NextTheme]_vars

\* The steps of the signal loop.
LoopNext ==
    \/ LoopStart
    \/ LoopRecvSome
    \/ LoopRecvNone
    \/ LoopWake
    \/ LoopLockRdom
    \/ LoopLockPoisoned
    \/ LoopVisit
    \/ LoopSet

\* The signal loop is a task of the async runtime: when it can take a step
\* it is eventually polled.
SpecFair == Init /\ [][Next]_vars /\ WF_vars(LoopNext)

\* A step puts one more DomEvent on the channel.
Injected == Len(emitted') = Len(emitted) + 1

\* The values the parsable texts stand for.
ParsedValues == {ParseF64(v)[1] : v \in {w \in CoordInputs : ParseF64(w) # None}}

\* ------------------------------------------------------------------ claims
\* C1: coalescing. A signal that arrives while the loop sleeps through the
\* debounce delay of an earlier signal belongs to that window and is served
\* by that window's single rebuild: it never starts a rebuild of its own.
C1_Coalescing == pc \in {"sleep", "lock", "traverse"} => ~trigger

\* C2: once recv() has returned None (channel closed and drained) the loop
\* has finished: it is in a final state and does not go on iterating.
C2_CleanTermination == recvNone => pc = "done"

\* C4: when the loop reaches the RealDom lock and the mutex is poisoned, the
\* rebuild is abandoned: the loop goes back to waiting for the next signal
\* with the registry unchanged.
C4_LockFailureSkipsRebuild ==
    [][(pc = "lock" /\ rdomPoisoned /\ pc' # pc)
          => (pc' = "recv" /\ children' = children)]_vars

\* C5: whenever the loop is suspended (awaiting a signal or sleeping through
\* the debounce delay) the RealDom lock is not held by the devtools.
C5_NoLockAcrossSuspension == pc \in {"recv", "sleep"} => rdomLock # "devtools"

\* The loop sleeps after an earlier rebuild while the host holds the lock.
C5_Witness == pc = "sleep" /\ children # <<>> /\ rdomLock = "host"

\* C6: the registry changes only in the step that ends a rebuild, and then it
\* becomes the complete registry of the locked tree: no reader ever sees a
\* partially built sequence.
C6_WholesaleReplacement ==
    [][children' # children => (Rebuilt /\ Ids(children') = CompleteIds(rdom))]_vars

\* A traversal is half way through building a registry that differs from the
\* one readers see.
C6_Witness ==
    /\ pc = "traverse"
    /\ stack # <<>>
    /\ new_children # <<>>
    /\ children # <<>>
    /\ Ids(children) # CompleteIds(rdom)

\* C3: self-exclusion. After a rebuild the registry holds neither the root of
\* the devtools panel (the second node of height 2 in document order) nor any
\* node below it, at any depth.
C3_SelfExclusion ==
    pc = "recv" =>
        \A i \in 1..Len(children) : ~InDevtoolsSubtree(rdom, children[i].id)

\* A rebuild is over on a tree whose devtools root has a descendant with an
\* ElementId at height 3 or more, after at least one node was recorded.
C3_Witness ==
    /\ pc = "recv"
    /\ children # <<>>
    /\ \E n \in DOMAIN rdom :
          /\ InDevtoolsSubtree(rdom, n)
          /\ Height(rdom, n) > DevtoolsHeight
          /\ rdom[n].element_id # None

\* C7: uniqueness. In the registry a rebuild produces no two records carry
\* the same NodeId.
C7_UniqueNodeIds ==
    pc = "recv" =>
        \A i, j \in 1..Len(children) : children[i].id = children[j].id => i = j

\* A rebuild has produced a registry of several records.
C7_Witness == pc = "recv" /\ Len(children) >= 3

\* C8: eventual resolution. A selection moves the state to Selected(id) for
\* the id of the chosen record; a rebuild leaves Selected(id) as it is,
\* whether or not the new registry has the id; and when the registry a
\* rebuild produces has a record with that id, resolving the selection
\* against it gives that record.
C8_EventualResolution ==
    [][/\ selected_node_id' # selected_node_id =>
             \E i \in 1..Len(children) : selected_node_id' = Some(children[i].id)
       /\ (Rebuilt /\ selected_node_id # None) =>
             /\ selected_node_id' = selected_node_id
             /\ \A i \in 1..Len(children') :
                    children'[i].id = selected_node_id[1]
                        => selected_node' = Some(children'[i])]_vars

\* The selected id was dropped by a rebuild after it was selected, and a
\* later rebuild has brought it back: the selection resolves again.
C8_Witness == vanished /\ selected_node # None

\* C9: a rebuild never changes the selection state.
C9_RebuildKeepsSelection == [][Rebuilt => selected_node_id' = selected_node_id]_vars

\* A rebuild has just produced a registry without the selected id and the
\* state is still Selected(id).
C9_Witness ==
    /\ pc = "recv"
    /\ vanished
    /\ selected_node_id # None
    /\ selected_node_id[1] \notin RegistryIds(children)

\* C10: resolving the selection against the registry is total. Unselected,
\* or Selected(id) with no record of that id, resolves to no node; when a
\* record has the id, the selection resolves to that record.
C10_ResolutionTotal ==
    /\ selected_node \in {None} \cup {Some(children[i]) : i \in 1..Len(children)}
    /\ selected_node_id = None => selected_node = None
    /\ (selected_node_id # None /\ selected_node_id[1] \notin RegistryIds(children))
          => selected_node = None
    /\ \A i \in 1..Len(children) :
          (selected_node_id # None /\ children[i].id = selected_node_id[1])
              => selected_node = Some(children[i])

\* Selected(id) is resolved against a registry of several records, none of
\* which has the id.
C10_Witness ==
    /\ selected_node_id # None
    /\ Len(children) >= 2
    /\ selected_node = None

\* C11: the selection can be cleared. In every state in which a node is
\* selected the panel has a step that moves the selection state back to
\* Unselected.
C11_ClearAvailable ==
    selected_node_id # None => ENABLED (NextUI /\ selected_node_id' = None)

\* C12: with a hover collaborator present, the hovered node always equals the
\* selection state: every selection writes the same id to both.
C12_HoverFollowsSelection ==
    hovered_node # None => hovered_node[1] = selected_node_id

\* An application node has been selected and the collaborator holds its id.
C12_Witness ==
    /\ selected_node_id = Some(FirstAppId)
    /\ hovered_node = Some(Some(FirstAppId))

\* C13: a step that injects puts exactly one DomEvent at the end of the
\* channel; its name is a pointer listener of the selected record, its target
\* the element_id of that record, its payload Mouse with the coordinates
\* entered for that listener as the local point and the left button.
C13_InjectedRecord ==
    [][Injected =>
          LET e == emitted'[Len(emitted')]
          IN /\ emitted' = Append(emitted, e)
             /\ selected_node # None
             /\ e.name \in ExtraListeners(selected_node[1])
             /\ e.element_id = selected_node[1].element_id
             /\ e.data.kind = "Mouse"
             /\ e.data.element_coordinates = positions[e.name]
             /\ e.data.trigger_button = Some("Left")]_vars

\* A click event for the first application node at the entered point (5, 5)
\* waits in the channel.
C13_Witness ==
    /\ emitted # <<>>
    /\ emitted[1].name = "click"
    /\ emitted[1].element_id = ElementIdOf(FirstAppId)
    /\ emitted[1].data.element_coordinates = <<5, 5>>

\* C14: an injection whose send failed because the receiver was dropped
\* reports the failure: the outcome the handler gives its caller is an error.
C14_FailureReported == sendResult = "Err" => handlerResult = "Err"

\* C15: while the selection does not resolve to a record of the registry no
\* step injects and no handler outcome is produced; every injected event is
\* addressed to the element_id of the record the selection resolves to.
C15_InjectTargetGone ==
    [][/\ selected_node = None =>
              (~Injected /\ sendResult' = sendResult
                         /\ handlerResult' = handlerResult)
       /\ (Injected /\ selected_node # None) =>
              emitted'[Len(emitted')].element_id = selected_node[1].element_id]_vars

\* The listeners tab is open on a selection whose node has left the registry.
C15_Witness ==
    /\ route = ListenersRoute
    /\ selected_node_id # None
    /\ selected_node = None

\* C16: while the selected record has no listeners (a text or placeholder
\* node) no step injects and no handler outcome, error or other, is produced.
C16_NoListenersNoInjection ==
    [][(selected_node # None /\ selected_node[1].listeners = None) =>
          (~Injected /\ sendResult' = sendResult
                     /\ handlerResult' = handlerResult)]_vars

\* After an injection for another record, the listeners tab is open on the
\* record of a text node.
C16_Witness ==
    /\ sendResult = "Ok"
    /\ route = ListenersRoute
    /\ selected_node # None
    /\ selected_node[1].listeners = None
    /\ selected_node[1].tag = "text"

\* C17: the coordinates of a newly rendered listener are (0, 0); a step that
\* changes the coordinates of a listener that stays rendered changes one of
\* the two, to the value of a parsable text, and leaves the other alone: a
\* text that does not parse changes nothing.
C17_MalformedCoordinateInput ==
    [][/\ Mounted(route', children', selected_node_id')
          /\ ~Mounted(route, children, selected_node_id)
          => positions' = ZeroPositions
       /\ \A l \in PointerListeners :
            (/\ Mounted(route, children, selected_node_id)
             /\ Mounted(route', children', selected_node_id')
             /\ positions'[l] # positions[l])
            => \E k \in 1..2 :
                  /\ positions'[l][3 - k] = positions[l][3 - k]
                  /\ positions'[l][k] \in ParsedValues]_vars

\* Each listener of the selected record has had one coordinate entered.
C17_Witness ==
    /\ Mounted(route, children, selected_node_id)
    /\ positions["click"] = <<5, 0>>
    /\ positions["mousedown"] = <<0, 5>>

\* C18: no failure inside the signal loop is fatal: the loop never panics.
C18_NoFatalFailure == pc # "panicked"

\* C19: when the host holds the RealDom lock as the loop comes to take it,
\* the loop is not held up by the lock: it has a step of its own to take, so
\* that the retry is left to the next signal.
C19_NotBlockedOnLock ==
    (pc = "lock" /\ rdomLock = "host") => ENABLED LoopNext

\* C20: the registry a rebuild produces is never empty (the tree never is).
C20_RegistryNonEmpty == pc = "recv" => children # <<>>

\* C20, amended: the registry a rebuild produces is non-empty exactly when
\* some node met before the second node of height 2 carries an ElementId.
C20_NonEmptyIffInspectable ==
    pc = "recv" => (children # <<>> <=> CompleteIds(rdom) # <<>>)

\* A rebuild has produced records for a tree whose root has no ElementId.
C20_Witness ==
    /\ pc = "recv"
    /\ children # <<>>
    /\ rdom[RootId].element_id = None

\* The tree of Scenario A.
IsScenarioA == \E rootTpl \in {ElementNode, VirtualNode} : rdom = ScenarioATree(rootTpl)

\* The record of the child of Scenario A.
IsChildRecord(r) ==
    /\ r.id = 2
    /\ r.tag = "container"
    /\ r.element_id = ElementIdOf(2)
    /\ r.listeners = Some({"click"})
    /\ r.text = None

\* C21: Scenario A. A rebuild of a root with a single element child that has
\* an ElementId and the listener "click" gives a registry of exactly one
\* record, the child's; the root contributes no record.
C21_ScenarioA ==
    (pc = "recv" /\ IsScenarioA) =>
        (Len(children) = 1 /\ IsChildRecord(children[1]))

\* C21, amended: the registry of Scenario A ends with the record of the
\* child; it is that record alone exactly when the root has no ElementId, and
\* a root that has one contributes the first of two records.
C21_ScenarioARootById ==
    (pc = "recv" /\ IsScenarioA) =>
        /\ Len(children) \in 1..2
        /\ IsChildRecord(children[Len(children)])
        /\ Len(children) = 1 <=> rdom[RootId].element_id = None
        /\ Len(children) = 2 => children[1].id = RootId

\* Scenario A with a root without ElementId has been rebuilt to one record.
C21_Witness ==
    /\ pc = "recv"
    /\ IsScenarioA
    /\ Len(children) = 1

\* C22: the Snapshot Builder is the only writer of the registry. Selecting a
\* record, changing tab, editing a coordinate, injecting an event and the
\* host end of the event channel leave it as it is: a step that changes the
\* registry is the step that ends a rebuild.
C22_OnlyBuilderWrites == [][children' # children => Rebuilt]_vars

\* A record was selected, a coordinate edited and an event injected, and the
\* registry is still the one the last rebuild stored.
C22_Witness ==
    /\ selected_node_id # None
    /\ \E l \in PointerListeners : positions[l] # <<0, 0>>
    /\ emitted # <<>>
    /\ sendResult = "Ok"
    /\ Len(children) > 1
    /\ children = RegistryOf(rdom)

\* C29: every event the panel emits is named after a listener the resolved
\* record has, and that name is "mousedown" or "click": no other listener of
\* the record, and no listener the record lacks, is ever injected.
C29_EmittedNames ==
    [][Injected =>
          LET name == emitted'[Len(emitted')].name
          IN /\ selected_node # None
             /\ selected_node[1].listeners # None
             /\ name \in selected_node[1].listeners[1] \cap {"mousedown", "click"}]_vars

\* A mousedown event was injected for a record that also listens to
\* mouseover.
C29_Witness ==
    /\ emitted # <<>>
    /\ emitted[Len(emitted)].name = "mousedown"
    /\ selected_node # None
    /\ selected_node[1].listeners # None
    /\ "mouseover" \in selected_node[1].listeners[1]

\* The nodes a traversal has still to visit, in the order it will visit them.
ToVisit == PreorderAll(rdom, stack)

\* C25: exact content. A rebuilt registry lists, in pre-order, precisely the
\* nodes with an ElementId that are visited strictly before the second node
\* of height 2; every node visited at or after that node is left out whatever
\* its height or parent, and during one traversal the exclusion, once set,
\* stays set: it is set exactly when that second node has been visited.
C25_ExactContent ==
    /\ pc = "recv" => Ids(children) = CompleteIds(rdom)
    /\ pc = "traverse" =>
          /\ devtools_found <=>
                (HasDevtoolsRoot(rdom)
                    /\ \A i \in 1..Len(ToVisit) : ToVisit[i] # DevtoolsRoot(rdom))
          /\ Ids(new_children) =
                SelectSeq(CompleteIds(rdom),
                          LAMBDA n : \A i \in 1..Len(ToVisit) : ToVisit[i] # n)

\* A rebuild is over on a tree with three nodes of height 2, the third one
\* with an ElementId, and with a registry that is not empty.
C25_Witness ==
    /\ pc = "recv"
    /\ children # <<>>
    /\ Len(AtDevtoolsHeight(rdom)) >= 3
    /\ rdom[AtDevtoolsHeight(rdom)[3]].element_id # None

\* C26: every record of a rebuilt registry is derived from its node alone:
\* an element gives its tag, no text and Some of its listeners; a text node
\* gives the tag "text", Some of its text and no listeners; a placeholder
\* gives the tag "placeholder", no text and no listeners; and the height of
\* the record is the depth of the node in the tree that was traversed.
C26_RecordFields ==
    pc = "recv" =>
        \A i \in 1..Len(children) :
            LET r == children[i]
                node == rdom[r.id]
            IN /\ r.height = Height(rdom, r.id)
               /\ node.kind = "Element" =>
                     r.tag = node.tag /\ r.text = None
                         /\ r.listeners = Some(node.listeners)
               /\ node.kind = "Text" =>
                     r.tag = "text" /\ r.text = Some(node.text)
                         /\ r.listeners = None
               /\ node.kind = "Placeholder" =>
                     r.tag = "placeholder" /\ r.text = None
                         /\ r.listeners = None

\* A rebuilt registry holds an element, a text node and a placeholder, at
\* different heights.
C26_Witness ==
    /\ pc = "recv"
    /\ \E i, j, k \in 1..Len(children) :
          /\ rdom[children[i].id].kind = "Element"
          /\ rdom[children[j].id].kind = "Text"
          /\ rdom[children[k].id].kind = "Placeholder"
          /\ children[j].height # children[k].height

\* C23: apply_optional overwrites exactly the fields of the theme whose
\* counterpart in the override is Some, going into the sub-theme field by
\* field, and leaves the others as the context provides them; an override
\* with every field None changes nothing, and applying the override again
\* gives the same theme.
C23_ApplyOptional ==
    /\ ~applied => theme = provided
    /\ applied =>
          LET optional == theme_prop[1]
              font == optional.font_theme
          IN /\ \A f \in CowFields :
                    theme[f] = IF optional[f] # None THEN optional[f][1]
                               ELSE provided[f]
             /\ theme.font_theme.color =
                    IF font # None /\ font[1].color # None THEN font[1].color[1]
                    ELSE provided.font_theme.color
             /\ DOMAIN theme = DOMAIN provided
             /\ optional = InputThemeWithDefault => theme = provided
             /\ apply_optional(theme, optional) = theme

\* An override naming one Cow field and the colour of the font was applied
\* to a theme it differs from in both.
C23_Witness ==
    /\ applied
    /\ theme_prop[1].background # None
    /\ theme_prop[1].border_fill = None
    /\ theme_prop[1].font_theme # None
    /\ theme_prop[1].font_theme[1].color # None
    /\ theme.background # provided.background
    /\ theme.font_theme.color # provided.font_theme.color

\* C24: a rebuild comes only after the debounce delay that follows the
\* consumption of a signal. The delay starts with a signal taken from the
\* channel; while it lasts the registry is not written and the tree lock is
\* not taken by the loop; the lock is asked for only once the delay is over;
\* the tree does not change while the loop holds the lock, and the registry
\* stored is the one of the tree as it is then, so what the host changed
\* during the delay is in it.
C24_DebouncedRebuild ==
    [][/\ (pc' = "sleep" /\ pc # "sleep") =>
             (pc = "recv" /\ queue # <<>> /\ queue' = Tail(queue))
       /\ pc = "sleep" =>
             (children' = children /\ rdomLock' # "devtools"
                 /\ pc' \in {"sleep", "lock"})
       /\ (pc' = "lock" /\ pc # "lock") => pc = "sleep"
       /\ (rdomLock' = "devtools" /\ rdomLock # "devtools") => pc = "lock"
       /\ (rdomLock = "devtools" \/ rdomLock' = "devtools") => rdom' = rdom
       /\ Rebuilt => children' = RegistryOf(rdom)]_vars

\* The delay of the one signal not yet served is over, the tree has changed
\* after that signal was pushed, and the registry is still the one of the
\* tree before the change.
C24_Witness ==
    /\ pc = "lock"
    /\ surplus = 1
    /\ queue = <<>>
    /\ dirty
    /\ children # <<>>
    /\ Ids(children) # CompleteIds(rdom)

\* C27: rebuilds are driven by consumed signals. The rebuilds performed are
\* never more than the signals pushed: every signal pushed is still in the
\* channel, is being served, was lost to a failed lock, or has had its one
\* rebuild. As long as no signal was pushed the registry is the initial
\* empty one, whatever the tree holds.
C27_RebuildsFollowSignals ==
    /\ surplus >= 0
    /\ surplus = Len(queue)
                 + (IF pc \in {"sleep", "lock", "traverse", "panicked"} THEN 1 ELSE 0)
    /\ ~signalled => (children = <<>> /\ surplus = 0 /\ pc \in {"start", "recv"})

\* No signal was ever pushed, the application has added a node that a
\* rebuild would record, and the loop waits in recv().
C27_Witness ==
    /\ ~signalled
    /\ pc = "recv"
    /\ RegistryOf(rdom) # <<>>
    /\ \E n \in AppIds : n \in RegistryIds(RegistryOf(rdom))

\* C28: eventual consistency. If from some point on every change of the tree
\* has been followed by a signal (so the host has stopped changing the tree
\* and has signalled its last change) and from some point on the tree lock
\* can be taken, then from some point on the registry is the registry of the
\* tree.
C28_EventualConsistency ==
    (<>[](~dirty) /\ <>[](rdomLock # "host" /\ ~rdomPoisoned))
        => <>[](children = RegistryOf(rdom))

\* After several changes of the tree, each followed by a signal, every
\* signal has been served and the registry is the registry of the tree, with
\* the application's nodes in it.
C28_Witness ==
    /\ ~dirty
    /\ signalled
    /\ surplus = 0
    /\ pc = "recv"
    /\ children = RegistryOf(rdom)
    /\ Len(children) > 2

====
